---- MODULE Spec2Model ----
(***************************************************************************)
(* A model of RustServer/src/main.rs: the thread-per-connection protocol   *)
(* state machine (handshake -> status | login -> play), its VarInt codec   *)
(* and packet framing, and the shared player roster and world behind two   *)
(* mutexes.                                                                *)
(*                                                                         *)
(* Bytes are integers 0..255 and a byte string is a sequence of them.  An  *)
(* f64 is represented by its eight big-endian bytes (its IEEE-754 bit      *)
(* pattern), a String by its UTF-8 bytes.  An i32 is an integer in         *)
(* -2^31 .. 2^31-1.                                                        *)
(*                                                                         *)
(* Each accepted socket has its own thread.  A panic ends that thread only *)
(* (panic = unwind, the default); a MutexGuard dropped while its thread is *)
(* panicking poisons the mutex, and lock().unwrap() on a poisoned mutex    *)
(* panics in turn.  What a client sends is chosen when the server reads.   *)
(***************************************************************************)
EXTENDS Integers, Sequences, FiniteSets, TLC

\* Number of sockets the listener accepts in a run.
NumConns == 2

Conns == 1..NumConns

VARIABLES
    pc,             \* pc[c]: where connection c's thread is in handle_client
    next_state,     \* local of handle_client (line 102)
    username,       \* local of handle_client (line 117)
    player,         \* local of handle_client (line 129)
    buffer,         \* local of handle_client's play loop (line 164)
    packet_id,      \* packet_id decoded by the last handle_handshake / handle_login
    diag,           \* the last diagnostic line the thread printed
    outbound,       \* packets written to connection c's socket, in order
    events,         \* the order in which connection c's protocol steps happened
    players,        \* Arc<Mutex<Vec<Player>>>: the data
    players_lock,   \* ... the thread holding the mutex, 0 when free
    players_poisoned,
    world,          \* Arc<Mutex<World>>: the data
    world_lock,
    world_poisoned,
    next_uuid,      \* the identities Uuid::new_v4() has handed out so far
    rs_before,      \* roster algebra (SpecRoster): the roster before the insertion
    rs_player,      \* roster algebra: the player inserted
    rs_step,        \* roster algebra: "start", "inserted", "removed"
    vi_pc,          \* codec runs (SpecCodec): "encode", "decode", "frame", ...
    vi_input,       \* codec: the i32 handed to write_varint_to_vec, if any
    vi_value,       \* codec: `value` of write_varint_to_vec (line 430)
    vi_buf,         \* codec: `buf` of write_varint_to_vec / the bytes to read
    vi_result       \* codec: what the readers returned

vars == <<pc, next_state, username, player, buffer, packet_id, diag, outbound,
          events, players, players_lock, players_poisoned, world, world_lock,
          world_poisoned, next_uuid, rs_before, rs_player, rs_step,
          vi_pc, vi_input, vi_value, vi_buf, vi_result>>

\* Option<T>: None is the empty sequence, Some(x) the one-element sequence.
None == <<>>
Some(x) == <<x>>
IsSome(o) == o # <<>>
Get(o) == o[1]

-----------------------------------------------------------------------------
(* VarInt codec                                                            *)

\* 1 << (7 * k) for the shift amounts that fit an i32.
Shl7 == <<128, 16384, 2097152, 268435456>>

\* ((byte & 0x7f) as i32) << (7 * num_read), for num_read in 0..4: the bits
\* shifted past bit 31 are lost and bit 31 is the sign.
ShiftedGroup(byte, num_read) ==
    LET g == byte % 128 IN
    IF num_read = 0 THEN g
    ELSE IF num_read < 4 THEN g * Shl7[num_read]
    ELSE ((g % 8) * Shl7[4])
         + (IF (g \div 8) % 2 = 1 THEN (-2147483647) - 1 ELSE 0)

\* The loop shared by read_varint and read_varint_from_cursor.  data[pos+1] is
\* the next byte.  In the sixth iteration the shift amount is 35: a build with
\* overflow checks panics there, a build without them wraps the amount and
\* then returns the "VarInt too big" error.
RECURSIVE varint_loop(_, _, _, _, _)
varint_loop(data, pos, num_read, result, overflow_checks) ==
    IF pos >= Len(data)
    THEN [kind |-> "err", msg |-> "UnexpectedEof", pos |-> pos]
    ELSE LET byte == data[pos + 1] IN
         IF num_read >= 5
         THEN IF overflow_checks
              THEN [kind |-> "panic", msg |-> "attempt to shift left with overflow",
                    pos |-> pos + 1]
              ELSE [kind |-> "err", msg |-> "VarInt too big", pos |-> pos + 1]
         ELSE LET r == result + ShiftedGroup(byte, num_read) IN
              IF byte < 128
              THEN [kind |-> "ok", value |-> r, pos |-> pos + 1]
              ELSE varint_loop(data, pos + 1, num_read + 1, r, overflow_checks)

\* read_varint: `stream` is what the client delivers before it closes (or
\* stalls on) the socket, pos the bytes already consumed.
read_varint(stream, pos, overflow_checks) ==
    varint_loop(stream, pos, 0, 0, overflow_checks)

\* read_varint_from_cursor: a cursor is [data, pos].
read_varint_from_cursor(cursor, overflow_checks) ==
    varint_loop(cursor.data, cursor.pos, 0, 0, overflow_checks)

\* One pass of the loop of write_varint_to_vec (and of write_varint): `value`
\* is an i32, so `value & 0x7f` takes the low seven bits of its two's-complement
\* pattern and `value >>= 7` is the arithmetic shift, which rounds towards
\* minus infinity and keeps the sign.
write_varint_pass(value, buf) ==
    LET temp == value % 128
        shifted == value \div 128
    IN [value |-> shifted,
        buf |-> Append(buf, IF shifted # 0 THEN temp + 128 ELSE temp),
        break |-> shifted = 0]

\* write_varint_to_vec for value >= 0 (every value the server encodes is a
\* packet ID, a count or a length).
RECURSIVE write_varint_to_vec(_)
write_varint_to_vec(value) ==
    LET temp == value % 128
        rest == value \div 128
    IN IF rest # 0
       THEN <<temp + 128>> \o write_varint_to_vec(rest)
       ELSE <<temp>>

-----------------------------------------------------------------------------
(* Strings                                                                 *)

InRange(b, lo, hi) == lo <= b /\ b <= hi

\* String::from_utf8: the well-formed UTF-8 byte sequences.
RECURSIVE IsUtf8(_)
IsUtf8(s) ==
    IF s = <<>> THEN TRUE
    ELSE LET b == s[1]
             n == Len(s)
             Cont(i) == i <= n /\ InRange(s[i], 128, 191)
         IN IF b < 128 THEN IsUtf8(Tail(s))
            ELSE IF InRange(b, 194, 223)
                 THEN Cont(2) /\ IsUtf8(SubSeq(s, 3, n))
            ELSE IF InRange(b, 224, 239)
                 THEN /\ n >= 3
                      /\ IF b = 224 THEN InRange(s[2], 160, 191)
                         ELSE IF b = 237 THEN InRange(s[2], 128, 159)
                         ELSE InRange(s[2], 128, 191)
                      /\ Cont(3)
                      /\ IsUtf8(SubSeq(s, 4, n))
            ELSE IF InRange(b, 240, 244)
                 THEN /\ n >= 4
                      /\ IF b = 240 THEN InRange(s[2], 144, 191)
                         ELSE IF b = 244 THEN InRange(s[2], 128, 143)
                         ELSE InRange(s[2], 128, 191)
                      /\ Cont(3) /\ Cont(4)
                      /\ IsUtf8(SubSeq(s, 5, n))
            ELSE FALSE

\* read_string_from_cursor.  A negative length makes `vec![0u8; length as usize]`
\* ask for more than isize::MAX bytes, which panics ("capacity overflow").
read_string_from_cursor(cursor, overflow_checks) ==
    LET l == read_varint_from_cursor(cursor, overflow_checks) IN
    IF l.kind = "panic" THEN [kind |-> "panic", msg |-> l.msg]
    ELSE IF l.kind = "err" THEN [kind |-> "err", msg |-> "Failed to read string length"]
    ELSE IF l.value < 0 THEN [kind |-> "panic", msg |-> "capacity overflow"]
    ELSE IF Len(cursor.data) - l.pos < l.value
         THEN [kind |-> "err", msg |-> "Failed to read string data"]
    ELSE LET bytes == SubSeq(cursor.data, l.pos + 1, l.pos + l.value) IN
         IF IsUtf8(bytes)
         THEN [kind |-> "ok", value |-> bytes, pos |-> l.pos + l.value]
         ELSE [kind |-> "err", msg |-> "Invalid UTF-8 string"]

\* write_string_to_vec
write_string_to_vec(s) == write_varint_to_vec(Len(s)) \o s

-----------------------------------------------------------------------------
(* Packet framing                                                          *)

\* The framing that handle_handshake, handle_login and the play loop each
\* spell out: a VarInt length from the socket, then read_exact of that many
\* bytes.  `stream` is what the client delivers before the socket ends.  A
\* negative length panics in `vec![0; length as usize]` (capacity overflow).
read_frame(stream, overflow_checks) ==
    LET l == read_varint(stream, 0, overflow_checks) IN
    IF l.kind = "panic" THEN [kind |-> "panic", msg |-> l.msg]
    ELSE IF l.kind = "err" THEN [kind |-> "err_len", msg |-> l.msg]
    ELSE IF l.value < 0 THEN [kind |-> "panic", msg |-> "capacity overflow"]
    ELSE IF Len(stream) - l.pos < l.value
         THEN [kind |-> "err_body", msg |-> "UnexpectedEof"]
    ELSE [kind |-> "ok", buffer |-> SubSeq(stream, l.pos + 1, l.pos + l.value),
          pos |-> l.pos + l.value]

\* std::io::Cursor::new
Cursor(data) == [data |-> data, pos |-> 0]

\* cursor.read_u16::<BigEndian>()
read_u16(cursor) ==
    IF Len(cursor.data) - cursor.pos < 2
    THEN [kind |-> "err", msg |-> "UnexpectedEof"]
    ELSE [kind |-> "ok",
          value |-> cursor.data[cursor.pos + 1] * 256 + cursor.data[cursor.pos + 2],
          pos |-> cursor.pos + 2]

\* cursor.read_f64::<BigEndian>(): the eight bytes are the value.
read_f64(cursor) ==
    IF Len(cursor.data) - cursor.pos < 8
    THEN [kind |-> "err", msg |-> "UnexpectedEof"]
    ELSE [kind |-> "ok",
          value |-> SubSeq(cursor.data, cursor.pos + 1, cursor.pos + 8),
          pos |-> cursor.pos + 8]

\* cursor.read_f32::<BigEndian>()
read_f32(cursor) ==
    IF Len(cursor.data) - cursor.pos < 4
    THEN [kind |-> "err", msg |-> "UnexpectedEof"]
    ELSE [kind |-> "ok",
          value |-> SubSeq(cursor.data, cursor.pos + 1, cursor.pos + 4),
          pos |-> cursor.pos + 4]

At(cursor, pos) == [cursor EXCEPT !.pos = pos]

-----------------------------------------------------------------------------
(* Handshake, status, login                                                *)

Err(msg, id) == [kind |-> "err", msg |-> msg, packet_id |-> id]
Panic(msg, id) == [kind |-> "panic", msg |-> msg, packet_id |-> id]

\* handle_handshake: Ok(next_state), Err(message) or a panic.  packet_id is
\* the packet ID it decoded, None when it did not get that far.
handle_handshake(stream, overflow_checks) ==
    LET f == read_frame(stream, overflow_checks)
        cursor == Cursor(f.buffer)
        id == read_varint_from_cursor(cursor, overflow_checks)
        protocol_version == read_varint_from_cursor(At(cursor, id.pos), overflow_checks)
        server_address ==
            read_string_from_cursor(At(cursor, protocol_version.pos), overflow_checks)
        server_port == read_u16(At(cursor, server_address.pos))
        ns == read_varint_from_cursor(At(cursor, server_port.pos), overflow_checks)
    IN
    IF f.kind = "panic" THEN Panic(f.msg, None)
    ELSE IF f.kind = "err_len" THEN Err("Failed to read packet length", None)
    ELSE IF f.kind = "err_body" THEN Err("Failed to read handshake packet", None)
    ELSE IF id.kind = "panic" THEN Panic(id.msg, None)
    ELSE IF id.kind = "err" THEN Err("Failed to read packet ID", None)
    ELSE IF id.value # 0 THEN Err("Invalid packet ID for handshake", Some(id.value))
    ELSE IF protocol_version.kind = "panic" THEN Panic(protocol_version.msg, Some(id.value))
    ELSE IF protocol_version.kind = "err"
         THEN Err("Failed to read protocol version", Some(id.value))
    ELSE IF server_address.kind = "panic" THEN Panic(server_address.msg, Some(id.value))
    ELSE IF server_address.kind = "err"
         THEN Err("Failed to read server address", Some(id.value))
    ELSE IF server_port.kind = "err" THEN Err("Failed to read server port", Some(id.value))
    ELSE IF ns.kind = "panic" THEN Panic(ns.msg, Some(id.value))
    ELSE IF ns.kind = "err" THEN Err("Failed to read next state", Some(id.value))
    ELSE [kind |-> "ok", next_state |-> ns.value, packet_id |-> Some(id.value),
          pos |-> f.pos]

\* A handle_login without the packet ID test.
handle_login_any_id(stream, overflow_checks) ==
    LET f == read_frame(stream, overflow_checks)
        cursor == Cursor(f.buffer)
        id == read_varint_from_cursor(cursor, overflow_checks)
        name == read_string_from_cursor(At(cursor, id.pos), overflow_checks)
    IN
    IF f.kind = "panic" THEN Panic(f.msg, None)
    ELSE IF f.kind = "err_len" THEN Err("Failed to read packet length", None)
    ELSE IF f.kind = "err_body" THEN Err("Failed to read login packet", None)
    ELSE IF id.kind = "panic" THEN Panic(id.msg, None)
    ELSE IF id.kind = "err" THEN Err("Failed to read packet ID", None)
    ELSE IF name.kind = "panic" THEN Panic(name.msg, Some(id.value))
    ELSE IF name.kind = "err" THEN Err(name.msg, Some(id.value))
    ELSE [kind |-> "ok", username |-> name.value, packet_id |-> Some(id.value),
          pos |-> f.pos]

\* handle_login: Ok(username), Err(message) or a panic.
handle_login(stream, overflow_checks) ==
    LET f == read_frame(stream, overflow_checks)
        cursor == Cursor(f.buffer)
        id == read_varint_from_cursor(cursor, overflow_checks)
        name == read_string_from_cursor(At(cursor, id.pos), overflow_checks)
    IN
    IF f.kind = "panic" THEN Panic(f.msg, None)
    ELSE IF f.kind = "err_len" THEN Err("Failed to read packet length", None)
    ELSE IF f.kind = "err_body" THEN Err("Failed to read login packet", None)
    ELSE IF id.kind = "panic" THEN Panic(id.msg, None)
    ELSE IF id.kind = "err" THEN Err("Failed to read packet ID", None)
    ELSE IF id.value # 0 THEN Err("Invalid packet ID for login start", Some(id.value))
    ELSE IF name.kind = "panic" THEN Panic(name.msg, Some(id.value))
    ELSE IF name.kind = "err" THEN Err(name.msg, Some(id.value))
    ELSE [kind |-> "ok", username |-> name.value, packet_id |-> Some(id.value),
          pos |-> f.pos]

-----------------------------------------------------------------------------
(* Players and the outbound packets                                        *)

F64_0 == <<0, 0, 0, 0, 0, 0, 0, 0>>        \* 0.0
F64_64 == <<64, 80, 0, 0, 0, 0, 0, 0>>     \* 64.0

\* A player built with the nil identity instead of a fresh one.
NewPlayer_nil_uuid(uuid, name) ==
    [uuid |-> 0, username |-> name, position |-> <<F64_0, F64_64, F64_0>>,
     health |-> 20, game_mode |-> "Survival", is_operator |-> FALSE]

\* The Player that handle_client builds (lines 129-136).
NewPlayer(uuid, name) ==
    [uuid |-> uuid, username |-> name, position |-> <<F64_0, F64_64, F64_0>>,
     health |-> 20, game_mode |-> "Survival", is_operator |-> FALSE]

HexDigit(d) == IF d < 10 THEN 48 + d ELSE 87 + d

\* Uuid::to_string: 36 characters, hyphenated lower-case hex.  The n-th
\* identity drawn is the version-4 UUID 00000000-0000-4000-8000-0000000000xy
\* with xy = n.
uuid_to_string(uuid) ==
    <<48, 48, 48, 48, 48, 48, 48, 48, 45, 48, 48, 48, 48, 45, 52, 48, 48, 48, 45,
      56, 48, 48, 48, 45, 48, 48, 48, 48, 48, 48, 48, 48, 48, 48>>
    \o <<HexDigit((uuid \div 16) % 16), HexDigit(uuid % 16)>>

\* "minecraft:overworld"
Overworld == <<109, 105, 110, 101, 99, 114, 97, 102, 116, 58,
               111, 118, 101, 114, 119, 111, 114, 108, 100>>

game_mode_byte(gm) ==
    CASE gm = "Survival" -> 0
      [] gm = "Creative" -> 1
      [] gm = "Adventure" -> 2
      [] gm = "Spectator" -> 3

\* Login success with the two strings in the opposite order.
send_login_success_username_first(p) ==
    LET packet_data == write_varint_to_vec(2)
                       \o write_string_to_vec(p.username)
                       \o write_string_to_vec(uuid_to_string(p.uuid))
    IN write_varint_to_vec(Len(packet_data)) \o packet_data

\* The bytes send_login_success hands to write_all.
send_login_success(p) ==
    LET packet_data == write_varint_to_vec(2)
                       \o write_string_to_vec(uuid_to_string(p.uuid))
                       \o write_string_to_vec(p.username)
    IN write_varint_to_vec(Len(packet_data)) \o packet_data

\* The bytes send_join_game hands to write_all.
send_join_game(p, w) ==
    LET packet_data ==
            write_varint_to_vec(38)
            \o <<0, 0, 0, 1>>
            \o <<0>>
            \o <<game_mode_byte(p.game_mode)>>
            \o <<255>>
            \o write_varint_to_vec(1)
            \o write_string_to_vec(Overworld)
            \o <<0>>
            \o write_string_to_vec(Overworld)
            \o write_string_to_vec(Overworld)
            \o <<0, 0, 0, 0, 0, 0, 0, 0>>
            \o write_varint_to_vec(10)
            \o write_varint_to_vec(10)
            \o write_varint_to_vec(10)
            \o <<0>> \o <<1>> \o <<0>> \o <<0>>
    IN write_varint_to_vec(Len(packet_data)) \o packet_data

-----------------------------------------------------------------------------
(* Play packets                                                            *)

\* players.iter_mut().find(|p| p.uuid == player.uuid): the first match.
FindByUuid(roster, uuid) ==
    LET hits == {i \in 1..Len(roster) : roster[i].uuid = uuid} IN
    IF hits = {} THEN 0 ELSE CHOOSE i \in hits : \A j \in hits : i <= j

\* A position update that writes to the head of the roster.
set_position_first_entry(roster, uuid, pos) ==
    IF roster = <<>> THEN roster ELSE [roster EXCEPT ![1].position = pos]

\* p.position = (x, y, z) on the entry found by uuid, if there is one.
set_position(roster, uuid, pos) ==
    LET i == FindByUuid(roster, uuid) IN
    IF i = 0 THEN roster ELSE [roster EXCEPT ![i].position = pos]

\* handle_player_position.  The length test is on the whole buffer
\* (cursor.get_ref().len()), packet ID included; each read_f64 is unwrapped.
\* A read that succeeds advances the cursor by the width it read (8 bytes for
\* an f64, 4 for an f32); after a read that fails the unwrap panics and the
\* later reads are never made.
handle_player_position(roster, p, cursor) ==
    LET x == read_f64(cursor)
        y == read_f64(At(cursor, cursor.pos + 8))
        z == read_f64(At(cursor, cursor.pos + 16))
    IN
    IF Len(cursor.data) >= 24
    THEN IF x.kind = "err" \/ y.kind = "err" \/ z.kind = "err"
         THEN [kind |-> "panic", msg |-> "unwrap on Err"]
         ELSE [kind |-> "ok",
               players |-> set_position(roster, p.uuid, <<x.value, y.value, z.value>>)]
    ELSE [kind |-> "ok", players |-> roster]

\* A position+rotation handler that looks the entry up by username.
handle_player_position_and_rotation_by_username(roster, p, cursor) ==
    LET x == read_f64(cursor)
        y == read_f64(At(cursor, cursor.pos + 8))
        z == read_f64(At(cursor, cursor.pos + 16))
        yaw == read_f32(At(cursor, cursor.pos + 24))
        pitch == read_f32(At(cursor, cursor.pos + 28))
    IN
    IF Len(cursor.data) >= 32
    THEN IF x.kind = "err" \/ y.kind = "err" \/ z.kind = "err"
            \/ yaw.kind = "err" \/ pitch.kind = "err"
         THEN [kind |-> "panic", msg |-> "unwrap on Err"]
         ELSE [kind |-> "ok",
               players |-> [i \in 1..Len(roster) |->
                              IF roster[i].username = p.username
                              THEN [roster[i] EXCEPT
                                      !.position = <<x.value, y.value, z.value>>]
                              ELSE roster[i]]]
    ELSE [kind |-> "ok", players |-> roster]

\* handle_player_position_and_rotation
handle_player_position_and_rotation(roster, p, cursor) ==
    LET x == read_f64(cursor)
        y == read_f64(At(cursor, cursor.pos + 8))
        z == read_f64(At(cursor, cursor.pos + 16))
        yaw == read_f32(At(cursor, cursor.pos + 24))
        pitch == read_f32(At(cursor, cursor.pos + 28))
    IN
    IF Len(cursor.data) >= 32
    THEN IF x.kind = "err" \/ y.kind = "err" \/ z.kind = "err"
            \/ yaw.kind = "err" \/ pitch.kind = "err"
         THEN [kind |-> "panic", msg |-> "unwrap on Err"]
         ELSE [kind |-> "ok",
               players |-> set_position(roster, p.uuid, <<x.value, y.value, z.value>>)]
    ELSE [kind |-> "ok", players |-> roster]

\* A dispatch whose default arm panics instead of printing.
handle_packet_unknown_fatal(roster, p, buf, overflow_checks) ==
    LET cursor == Cursor(buf)
        id == read_varint_from_cursor(cursor, overflow_checks)
    IN
    IF id.kind = "panic" THEN [kind |-> "panic", msg |-> id.msg]
    ELSE IF id.kind = "err" THEN [kind |-> "ok", players |-> roster]
    ELSE IF id.value = 18 THEN handle_player_position(roster, p, At(cursor, id.pos))
    ELSE IF id.value = 19
         THEN handle_player_position_and_rotation(roster, p, At(cursor, id.pos))
    ELSE [kind |-> "panic", msg |-> "Unknown packet ID"]

\* handle_packet: the roster it leaves, or a panic.
handle_packet(roster, p, buf, overflow_checks) ==
    LET cursor == Cursor(buf)
        id == read_varint_from_cursor(cursor, overflow_checks)
    IN
    IF id.kind = "panic" THEN [kind |-> "panic", msg |-> id.msg]
    ELSE IF id.kind = "err" THEN [kind |-> "ok", players |-> roster]
    ELSE IF id.value = 18 THEN handle_player_position(roster, p, At(cursor, id.pos))
    ELSE IF id.value = 19
         THEN handle_player_position_and_rotation(roster, p, At(cursor, id.pos))
    ELSE [kind |-> "ok", players |-> roster]

\* players.retain(|p| p.username != username)
retain_not_username(roster, name) ==
    SelectSeq(roster, LAMBDA q : q.username # name)

roster_push(roster, p) == Append(roster, p)

-----------------------------------------------------------------------------
(* What the clients send                                                   *)

Frame(payload) == write_varint_to_vec(Len(payload)) \o payload

Localhost == <<108, 111, 99, 97, 108, 104, 111, 115, 116>>
NameSd == <<115, 100>>      \* "sd"
NameA == <<97>>             \* "a"
Names == {NameSd, NameA}

\* Handshake(protocol=767, address="localhost", port=25565, next_state)
HandshakePacket(id, ns) ==
    Frame(<<id>> \o write_varint_to_vec(767) \o write_string_to_vec(Localhost)
          \o <<99, 221>> \o write_varint_to_vec(ns))

AllButLast(s) == SubSeq(s, 1, Len(s) - 1)

\* VarInt -1, and six bytes with the continuation bit set.
VarIntMinusOne == <<255, 255, 255, 255, 15>>
VarIntOverlong == <<255, 255, 255, 255, 255, 255>>

\* What a client may send while the server is in handle_handshake: a packet
\* that is well formed, has the wrong ID, stops short of its declared length,
\* or is no packet at all.
HandshakeStreams ==
    { HandshakePacket(0, 1), HandshakePacket(0, 2), HandshakePacket(0, 3),
      HandshakePacket(1, 2), AllButLast(HandshakePacket(0, 2)),
      <<>>, VarIntMinusOne, VarIntOverlong }

LoginStart(id, name) == Frame(<<id>> \o write_string_to_vec(name))

LoginStreams ==
    { LoginStart(0, NameSd), LoginStart(0, NameA), LoginStart(1, NameSd),
      Frame(<<0, 1, 255>>), AllButLast(LoginStart(0, NameSd)), <<>> }

F64_1 == <<63, 240, 0, 0, 0, 0, 0, 0>>     \* 1.0
F64_2 == <<64, 0, 0, 0, 0, 0, 0, 0>>       \* 2.0
F32_0 == <<0, 0, 0, 0>>                    \* 0.0f32

PosA == <<F64_1, F64_64, F64_2>>
PosB == <<F64_2, F64_64, F64_1>>

PositionPacket(pos) == <<18>> \o pos[1] \o pos[2] \o pos[3]
PositionRotationPacket(pos) ==
    <<19>> \o pos[1] \o pos[2] \o pos[3] \o F32_0 \o F32_0

\* The Play packets: the two movement packets, each also one byte short and
\* much too short, an unknown ID, an empty packet and an over-long ID.
PlayPackets ==
    { PositionPacket(PosA), AllButLast(PositionPacket(PosA)), <<18, 63, 240>>,
      PositionRotationPacket(PosB), AllButLast(PositionRotationPacket(PosB)),
      <<5, 0>>, <<>>, VarIntOverlong }

\* What a client may send while the server is in the play loop.
PlayStreams ==
    { Frame(b) : b \in PlayPackets }
    \cup { <<>>, AllButLast(Frame(PositionPacket(PosA))), VarIntMinusOne }

-----------------------------------------------------------------------------
(* The state machine                                                       *)

\* World after main has built and generated it (lines 470-490); the generated
\* terrain is not looked at by any handler.
InitialWorld ==
    [blocks |-> "generated",
     mobs |-> <<[mob_type |-> "Zombie", health |-> 20],
                [mob_type |-> "Skeleton", health |-> 20]>>,
     dimension |-> "Overworld"]

\* No codec run is in progress.
CodecOff ==
    /\ vi_pc = "off"
    /\ vi_input = None
    /\ vi_value = 0
    /\ vi_buf = <<>>
    /\ vi_result = None

Init ==
    /\ pc = [c \in Conns |-> "idle"]
    /\ next_state = [c \in Conns |-> None]
    /\ username = [c \in Conns |-> None]
    /\ player = [c \in Conns |-> None]
    /\ buffer = [c \in Conns |-> None]
    /\ packet_id = [c \in Conns |-> None]
    /\ diag = [c \in Conns |-> None]
    /\ outbound = [c \in Conns |-> <<>>]
    /\ events = [c \in Conns |-> <<>>]
    /\ players = <<>>
    /\ players_lock = 0
    /\ players_poisoned = FALSE
    /\ world = InitialWorld
    /\ world_lock = 0
    /\ world_poisoned = FALSE
    /\ next_uuid = 1
    /\ rs_before = <<>>
    /\ rs_player = NewPlayer(0, <<>>)
    /\ rs_step = "off"
    /\ CodecOff

shared == <<players, players_lock, players_poisoned, world, world_lock,
            world_poisoned, next_uuid>>
rs == <<rs_before, rs_player, rs_step>>
vi == <<vi_pc, vi_input, vi_value, vi_buf, vi_result>>

\* The thread of connection c ends, by return ("done") or by a panic
\* ("panicked"), with msg as its last diagnostic; its locals and its
\* TcpStream are dropped.
Exit(c, how, msg) ==
    /\ pc' = [pc EXCEPT ![c] = how]
    /\ diag' = [diag EXCEPT ![c] = msg]
    /\ next_state' = [next_state EXCEPT ![c] = None]
    /\ username' = [username EXCEPT ![c] = None]
    /\ player' = [player EXCEPT ![c] = None]
    /\ buffer' = [buffer EXCEPT ![c] = None]
    /\ outbound' = [outbound EXCEPT ![c] = <<>>]

Goto(c, where) == pc' = [pc EXCEPT ![c] = where]

Record(c, e) == events' = [events EXCEPT ![c] = Append(@, e)]

\* main's accept loop (lines 497-506): the next socket gets its own thread.
Accept(c) ==
    /\ pc[c] = "idle"
    /\ \A d \in Conns : d < c => pc[d] # "idle"
    /\ Goto(c, "handshake")
    /\ UNCHANGED <<next_state, username, player, buffer, packet_id, diag,
                   outbound, events, shared, rs, vi>>

\* A handle_client without the status branch.
after_handshake_no_status(ns) == "login"

\* `if next_state == 1` (line 110)
after_handshake(ns) == IF ns = 1 THEN "status" ELSE "login"

\* handle_client, lines 101-114.
Handshake(c) ==
    /\ pc[c] = "handshake"
    /\ \E stream \in HandshakeStreams, overflow_checks \in BOOLEAN :
         LET r == handle_handshake(stream, overflow_checks) IN
         /\ r.kind = "ok" => r.pos = Len(stream)
         /\ packet_id' = [packet_id EXCEPT ![c] = r.packet_id]
         /\ IF r.kind = "ok"
            THEN /\ next_state' = [next_state EXCEPT ![c] = Some(r.next_state)]
                 /\ Goto(c, after_handshake(r.next_state))
                 /\ UNCHANGED <<username, player, buffer, diag, outbound>>
            ELSE IF r.kind = "err"
            THEN Exit(c, "done", <<"Handshake failed", r.msg>>)
            ELSE Exit(c, "panicked", <<"panic", r.msg>>)
    /\ UNCHANGED <<events, shared, rs, vi>>

\* handle_status (lines 261-263) and the return after it.
HandleStatus(c) ==
    /\ pc[c] = "status"
    /\ Exit(c, "done", <<"status">>)
    /\ UNCHANGED <<packet_id, events, shared, rs, vi>>

\* handle_client, lines 116-126.  next_state is not read after line 110 and
\* is forgotten once handle_login has returned a username.
Login(c) ==
    /\ pc[c] = "login"
    /\ \E stream \in LoginStreams, overflow_checks \in BOOLEAN :
         LET r == handle_login(stream, overflow_checks) IN
         /\ r.kind = "ok" => r.pos = Len(stream)
         /\ packet_id' = [packet_id EXCEPT ![c] = r.packet_id]
         /\ IF r.kind = "ok"
            THEN /\ username' = [username EXCEPT ![c] = Some(r.username)]
                 /\ Goto(c, "create")
                 /\ diag' = [diag EXCEPT ![c] = <<"Login successful">>]
                 /\ Record(c, "login_decoded")
                 /\ next_state' = [next_state EXCEPT ![c] = None]
                 /\ UNCHANGED <<player, buffer, outbound>>
            ELSE /\ IF r.kind = "err"
                    THEN Exit(c, "done", <<"Login failed", r.msg>>)
                    ELSE Exit(c, "panicked", <<"panic", r.msg>>)
                 /\ UNCHANGED events
    /\ UNCHANGED <<shared, rs, vi>>

PoisonPanic == <<"panic", "PoisonError">>

\* handle_client, lines 128-137: build the player and push it under the
\* roster lock.
CreatePlayer(c) ==
    /\ pc[c] = "create"
    /\ players_lock = 0
    /\ IF players_poisoned
       THEN /\ Exit(c, "panicked", PoisonPanic)
            /\ UNCHANGED <<players, next_uuid, events>>
       ELSE LET p == NewPlayer(next_uuid, Get(username[c])) IN
            /\ player' = [player EXCEPT ![c] = Some(p)]
            /\ players' = roster_push(players, p)
            /\ next_uuid' = next_uuid + 1
            /\ Goto(c, "print")
            /\ Record(c, "inserted")
            /\ UNCHANGED <<next_state, username, buffer, diag, outbound>>
    /\ UNCHANGED <<packet_id, players_lock, players_poisoned, world, world_lock,
                   world_poisoned, rs, vi>>

\* handle_client, line 138: the roster is locked again to print it.
PrintPlayers(c) ==
    /\ pc[c] = "print"
    /\ players_lock = 0
    /\ IF players_poisoned
       THEN Exit(c, "panicked", PoisonPanic)
       ELSE /\ Goto(c, "send_login")
            /\ diag' = [diag EXCEPT ![c] = <<"Player list">>]
            /\ UNCHANGED <<next_state, username, player, buffer, outbound>>
    /\ UNCHANGED <<packet_id, events, shared, rs, vi>>

\* A handle_client that goes on after a failed login-success write.
after_login_success_unchecked(ok) == "join_lock"

\* `if let Err(_) = send_login_success(..)` (line 141)
after_login_success(ok) == IF ok THEN "join_lock" ELSE "done"

\* handle_client, lines 140-144: write_all succeeds or fails.
SendLoginSuccess(c) ==
    /\ pc[c] = "send_login"
    /\ \E ok \in BOOLEAN :
         IF after_login_success(ok) = "done"
         THEN /\ Exit(c, "done", <<"Failed to send login success packet">>)
              /\ UNCHANGED events
         ELSE /\ Goto(c, after_login_success(ok))
              /\ IF ok
                 THEN /\ outbound' = [outbound EXCEPT
                                        ![c] = Append(@, send_login_success(Get(player[c])))]
                      /\ Record(c, "login_success_written")
                 ELSE UNCHANGED <<outbound, events>>
              /\ UNCHANGED <<next_state, username, player, buffer, diag>>
    /\ UNCHANGED <<packet_id, shared, rs, vi>>

\* handle_client, line 147: world.lock().unwrap() is evaluated as an argument
\* of send_join_game; the guard lives until the statement ends.
JoinLock(c) ==
    /\ pc[c] = "join_lock"
    /\ world_lock = 0
    /\ IF world_poisoned
       THEN /\ Exit(c, "panicked", PoisonPanic)
            /\ UNCHANGED world_lock
       ELSE /\ world_lock' = c
            /\ Goto(c, "join_write")
            /\ UNCHANGED <<next_state, username, player, buffer, diag, outbound>>
    /\ UNCHANGED <<packet_id, events, players, players_lock, players_poisoned,
                   world, world_poisoned, next_uuid, rs, vi>>

\* `if let Err(_) = send_join_game(..)` (line 147)
after_join_game(ok) == IF ok THEN "play_read" ELSE "done"

\* A join step that also takes the roster lock while it holds the world
\* guard.
JoinWrite_locks_roster(c) ==
    /\ pc[c] = "join_write"
    /\ players_lock = 0
    /\ world_lock' = 0
    /\ \E ok \in BOOLEAN :
         IF after_join_game(ok) = "done"
         THEN /\ Exit(c, "done", <<"Failed to send join game packet">>)
              /\ UNCHANGED events
         ELSE /\ Goto(c, after_join_game(ok))
              /\ IF ok
                 THEN /\ outbound' = [outbound EXCEPT
                                        ![c] = Append(@, send_join_game(Get(player[c]), world))]
                      /\ Record(c, "join_written")
                 ELSE UNCHANGED <<outbound, events>>
              /\ UNCHANGED <<next_state, username, player, buffer, diag>>
    /\ UNCHANGED <<packet_id, players, players_lock, players_poisoned, world,
                   world_poisoned, next_uuid, rs, vi>>

\* send_join_game's write_all (line 375) and the end of the statement at
\* line 147-150, where the world guard is dropped.
JoinWrite(c) ==
    /\ pc[c] = "join_write"
    /\ world_lock' = 0
    /\ \E ok \in BOOLEAN :
         IF after_join_game(ok) = "done"
         THEN /\ Exit(c, "done", <<"Failed to send join game packet">>)
              /\ UNCHANGED events
         ELSE /\ Goto(c, after_join_game(ok))
              /\ IF ok
                 THEN /\ outbound' = [outbound EXCEPT
                                        ![c] = Append(@, send_join_game(Get(player[c]), world))]
                      /\ Record(c, "join_written")
                 ELSE UNCHANGED <<outbound, events>>
              /\ UNCHANGED <<next_state, username, player, buffer, diag>>
    /\ UNCHANGED <<packet_id, players, players_lock, players_poisoned, world,
                   world_poisoned, next_uuid, rs, vi>>

RecordOnce(c, e) ==
    events' = [events EXCEPT
                 ![c] = IF \E i \in 1..Len(@) : @[i] = e THEN @ ELSE Append(@, e)]

\* handle_client, lines 152-166 and 170-171: read one frame.  A failed length
\* read and a failed body read both go on to remove the player.
PlayRead(c) ==
    /\ pc[c] = "play_read"
    /\ \E stream \in PlayStreams, overflow_checks \in BOOLEAN :
         LET r == read_frame(stream, overflow_checks) IN
         /\ r.kind = "ok" => r.pos = Len(stream)
         /\ IF r.kind = "ok"
            THEN /\ buffer' = [buffer EXCEPT ![c] = Some(r.buffer)]
                 /\ Goto(c, "pkt_lock_players")
                 /\ UNCHANGED <<next_state, username, player, diag, outbound>>
            ELSE IF r.kind = "err_len"
            THEN /\ diag' = [diag EXCEPT ![c] = <<"Client disconnected">>]
                 /\ Goto(c, "remove")
                 /\ UNCHANGED <<next_state, username, player, buffer, outbound>>
            ELSE IF r.kind = "err_body"
            THEN /\ diag' = [diag EXCEPT ![c] = <<"Error reading packet">>]
                 /\ Goto(c, "remove")
                 /\ UNCHANGED <<next_state, username, player, buffer, outbound>>
            ELSE Exit(c, "panicked", <<"panic", r.msg>>)
    /\ RecordOnce(c, "play_read")
    /\ UNCHANGED <<packet_id, shared, rs, vi>>

\* handle_client, lines 159-160 and 173-174: remove by username, return.
RemovePlayer(c) ==
    /\ pc[c] = "remove"
    /\ players_lock = 0
    /\ IF players_poisoned
       THEN /\ Exit(c, "panicked", PoisonPanic)
            /\ UNCHANGED players
       ELSE /\ players' = retain_not_username(players, Get(username[c]))
            /\ Exit(c, "done", diag[c])
    /\ UNCHANGED <<packet_id, events, players_lock, players_poisoned, world,
                   world_lock, world_poisoned, next_uuid, rs, vi>>

\* handle_client, line 168, first argument guard: players.lock().unwrap()
PktLockPlayers(c) ==
    /\ pc[c] = "pkt_lock_players"
    /\ players_lock = 0
    /\ IF players_poisoned
       THEN /\ Exit(c, "panicked", PoisonPanic)
            /\ UNCHANGED players_lock
       ELSE /\ players_lock' = c
            /\ Goto(c, "pkt_lock_world")
            /\ UNCHANGED <<next_state, username, player, buffer, diag, outbound>>
    /\ UNCHANGED <<packet_id, events, players, players_poisoned, world,
                   world_lock, world_poisoned, next_uuid, rs, vi>>

\* handle_client, line 168, second argument guard: world.lock().unwrap(),
\* with the roster guard held.  If it panics, the roster guard is dropped by
\* the unwinding, which poisons the roster mutex.
PktLockWorld(c) ==
    /\ pc[c] = "pkt_lock_world"
    /\ world_lock = 0
    /\ IF world_poisoned
       THEN /\ Exit(c, "panicked", PoisonPanic)
            /\ players_lock' = 0
            /\ players_poisoned' = TRUE
            /\ UNCHANGED world_lock
       ELSE /\ world_lock' = c
            /\ Goto(c, "pkt_handle")
            /\ UNCHANGED <<next_state, username, player, buffer, diag, outbound,
                           players_lock, players_poisoned>>
    /\ UNCHANGED <<packet_id, events, players, world, world_poisoned, next_uuid, rs, vi>>

\* handle_client, line 168: the call of handle_packet with both guards held,
\* and the end of the statement, where both are dropped.  A panic inside
\* handle_packet unwinds through both guards and poisons both mutexes.
HandlePacket(c) ==
    /\ pc[c] = "pkt_handle"
    /\ \E overflow_checks \in BOOLEAN :
         LET r == handle_packet(players, Get(player[c]), Get(buffer[c]), overflow_checks) IN
         IF r.kind = "ok"
         THEN /\ players' = r.players
              /\ buffer' = [buffer EXCEPT ![c] = None]
              /\ Goto(c, "play_read")
              /\ UNCHANGED <<next_state, username, player, diag, outbound,
                             players_poisoned, world_poisoned>>
         ELSE /\ Exit(c, "panicked", <<"panic", r.msg>>)
              /\ players_poisoned' = TRUE
              /\ world_poisoned' = TRUE
              /\ UNCHANGED players
    /\ players_lock' = 0
    /\ world_lock' = 0
    /\ UNCHANGED <<packet_id, events, world, next_uuid, rs, vi>>

Next ==
    \E c \in Conns :
        \/ Accept(c)
        \/ Handshake(c)
        \/ HandleStatus(c)
        \/ Login(c)
        \/ CreatePlayer(c)
        \/ PrintPlayers(c)
        \/ SendLoginSuccess(c)
        \/ JoinLock(c)
        \/ JoinWrite(c)
        \/ PlayRead(c)
        \/ RemovePlayer(c)
        \/ PktLockPlayers(c)
        \/ PktLockWorld(c)
        \/ HandlePacket(c)

Spec == Init /\ [][Next]_vars

\* The steps of connection c's thread that do not wait for the client: the
\* lock() calls and the steps taken with a lock held (handle_packet, and the
\* write of the join packet, which fits the socket's send buffer).
LocalStep(c) ==
    \/ CreatePlayer(c)
    \/ PrintPlayers(c)
    \/ RemovePlayer(c)
    \/ PktLockPlayers(c)
    \/ JoinLock(c)
    \/ PktLockWorld(c)
    \/ JoinWrite(c)
    \/ HandlePacket(c)

\* Fair scheduling of the threads: a thread blocked in lock() can run whenever
\* the mutex is free, and if the mutex is free again and again the thread gets
\* it (strong fairness; for the steps that need no lock it is the same as weak
\* fairness).  Socket reads wait for the client and are not fair.
Fairness == \A c \in Conns : SF_vars(LocalStep(c))

FairSpec == Spec /\ Fairness

-----------------------------------------------------------------------------
(* The roster operations on their own: insert, then remove by username     *)

\* Largest roster the insertion starts from.
MaxRoster == 2

RosterPlayers ==
    { [NewPlayer(u, n) EXCEPT !.position = pos] :
        u \in 1..MaxRoster, n \in Names, pos \in {<<F64_0, F64_64, F64_0>>, PosA} }

\* The rosters handle_client can build: identities are distinct, usernames
\* need not be.
Rosters ==
    UNION { { r \in [1..k -> RosterPlayers] :
                \A i, j \in 1..k : i # j => r[i].uuid # r[j].uuid } :
            k \in 0..MaxRoster }

InitRoster ==
    /\ pc = [c \in Conns |-> "idle"]
    /\ next_state = [c \in Conns |-> None]
    /\ username = [c \in Conns |-> None]
    /\ player = [c \in Conns |-> None]
    /\ buffer = [c \in Conns |-> None]
    /\ packet_id = [c \in Conns |-> None]
    /\ diag = [c \in Conns |-> None]
    /\ outbound = [c \in Conns |-> <<>>]
    /\ events = [c \in Conns |-> <<>>]
    /\ players \in Rosters
    /\ players_lock = 0
    /\ players_poisoned = FALSE
    /\ world = InitialWorld
    /\ world_lock = 0
    /\ world_poisoned = FALSE
    /\ next_uuid = MaxRoster + 1
    /\ rs_before = players
    /\ rs_player \in { NewPlayer(next_uuid, n) : n \in Names }
    /\ rs_step = "start"
    /\ CodecOff

\* players.lock().unwrap().push(player.clone()) (line 137)
RosterInsert ==
    /\ rs_step = "start"
    /\ players' = roster_push(players, rs_player)
    /\ rs_step' = "inserted"
    /\ UNCHANGED <<pc, next_state, username, player, buffer, packet_id, diag,
                   outbound, events, players_lock, players_poisoned, world,
                   world_lock, world_poisoned, next_uuid, rs_before, rs_player, vi>>

\* players.lock().unwrap().retain(|p| p.username != username) (lines 159, 173)
RosterRemove ==
    /\ rs_step = "inserted"
    /\ players' = retain_not_username(players, rs_player.username)
    /\ rs_step' = "removed"
    /\ UNCHANGED <<pc, next_state, username, player, buffer, packet_id, diag,
                   outbound, events, players_lock, players_poisoned, world,
                   world_lock, world_poisoned, next_uuid, rs_before, rs_player, vi>>

NextRoster == RosterInsert \/ RosterRemove

SpecRoster == InitRoster /\ [][NextRoster]_vars

-----------------------------------------------------------------------------
(* The codec on its own: write_varint_to_vec, the two VarInt readers and    *)
(* the framing, each applied to inputs drawn from bounded sets              *)

\* The bytes write_varint_to_vec may push before the run is cut off, and the
\* longest byte string handed to the readers.
MaxEncodeLen == 6
MaxVarIntLen == 6

I32Min == (-2147483647) - 1
I32Max == 2147483647

\* i32 values around the group boundaries, of both signs.
VarIntValues ==
    { 0, 1, 2, 127, 128, 255, 300, 767, 16383, 16384, 25565, 2097151, 2097152,
      268435455, 268435456, I32Max, -1, -2, -127, -128, -129, -16384,
      -2097152, -268435456, I32Min + 1, I32Min }

VarIntBytes == { 0, 127, 128, 255 }
VarIntInputs ==
    UNION { [1..n -> VarIntBytes] : n \in 0..MaxVarIntLen }

FrameInputs == HandshakeStreams \cup LoginStreams \cup PlayStreams

InitCodec ==
    /\ pc = [c \in Conns |-> "idle"]
    /\ next_state = [c \in Conns |-> None]
    /\ username = [c \in Conns |-> None]
    /\ player = [c \in Conns |-> None]
    /\ buffer = [c \in Conns |-> None]
    /\ packet_id = [c \in Conns |-> None]
    /\ diag = [c \in Conns |-> None]
    /\ outbound = [c \in Conns |-> <<>>]
    /\ events = [c \in Conns |-> <<>>]
    /\ players = <<>>
    /\ players_lock = 0
    /\ players_poisoned = FALSE
    /\ world = InitialWorld
    /\ world_lock = 0
    /\ world_poisoned = FALSE
    /\ next_uuid = 1
    /\ rs_before = <<>>
    /\ rs_player = NewPlayer(0, <<>>)
    /\ rs_step = "off"
    /\ vi_result = None
    /\ \/ /\ vi_pc = "encode"
          /\ vi_input \in { Some(v) : v \in VarIntValues }
          /\ vi_value = Get(vi_input)
          /\ vi_buf = <<>>
       \/ /\ vi_pc = "decode"
          /\ vi_input = None
          /\ vi_value = 0
          /\ vi_buf \in VarIntInputs
       \/ /\ vi_pc = "frame"
          /\ vi_input = None
          /\ vi_value = 0
          /\ vi_buf \in FrameInputs

conns == <<pc, next_state, username, player, buffer, packet_id, diag, outbound,
           events>>

\* write_varint_to_vec, lines 432-442: one pass of the loop; after the break
\* the bytes go to the readers.
WriteVarIntPass ==
    /\ vi_pc = "encode"
    /\ Len(vi_buf) < MaxEncodeLen
    /\ LET r == write_varint_pass(vi_value, vi_buf) IN
       /\ vi_value' = r.value
       /\ vi_buf' = r.buf
       /\ vi_pc' = IF r.break THEN "decode" ELSE "encode"
    /\ UNCHANGED <<vi_input, vi_result, conns, shared, rs>>

\* read_varint and read_varint_from_cursor on the same bytes.
ReadVarInt ==
    /\ vi_pc = "decode"
    /\ \E overflow_checks \in BOOLEAN :
         vi_result' = Some(<<read_varint(vi_buf, 0, overflow_checks),
                             read_varint_from_cursor(Cursor(vi_buf), overflow_checks)>>)
    /\ vi_pc' = "decoded"
    /\ UNCHANGED <<vi_input, vi_value, vi_buf, conns, shared, rs>>

\* The framing of the three protocol states on the same stream:
\* handle_handshake, handle_login and the play loop's read (lines 154-166).
ReadFrame ==
    /\ vi_pc = "frame"
    /\ \E overflow_checks \in BOOLEAN :
         vi_result' = Some(<<handle_handshake(vi_buf, overflow_checks),
                             handle_login(vi_buf, overflow_checks),
                             read_frame(vi_buf, overflow_checks)>>)
    /\ vi_pc' = "framed"
    /\ UNCHANGED <<vi_input, vi_value, vi_buf, conns, shared, rs>>

NextCodec == WriteVarIntPass \/ ReadVarInt \/ ReadFrame

SpecCodec == InitCodec /\ [][NextCodec]_vars

-----------------------------------------------------------------------------
(* Properties                                                              *)

Exited(c) == pc[c] \in {"done", "panicked"}

HasUuid(roster, uuid) == \E i \in 1..Len(roster) : roster[i].uuid = uuid
HasUsername(roster, name) == \E i \in 1..Len(roster) : roster[i].username = name
Happened(c, e) == \E i \in 1..Len(events[c]) : events[c][i] = e

\* C1: whenever a connection whose player has been inserted into the roster
\* exits (after a failed write of either outbound packet, a failed read in the
\* play loop, or a failure while a play packet is handled), the roster it
\* leaves behind has no entry with that player's identity.
C1_RemovedOnEveryFailure ==
    [][\A c \in Conns :
         (IsSome(player[c]) /\ ~Exited(c) /\ pc'[c] \in {"done", "panicked"})
         => ~HasUuid(players', Get(player[c]).uuid)]_vars

\* The thread of c is about to take (or is waiting for) the roster lock.
WantsPlayersLock(c) == pc[c] \in {"create", "print", "remove", "pkt_lock_players"}
\* The thread of c is about to take (or is waiting for) the world lock.
WantsWorldLock(c) == pc[c] \in {"join_lock", "pkt_lock_world"}

\* C2: a format error of one connection is fatal to that connection only:
\* whatever the other connections have received, a connection that asks for
\* the roster lock or the world lock gets a usable lock (lock() returns Ok),
\* so that it can log in, move and be removed.
C2_OtherConnectionsUnaffected ==
    \A c \in Conns :
        /\ WantsPlayersLock(c) => ~players_poisoned
        /\ WantsWorldLock(c) => ~world_poisoned

\* The bytes of buf after its packet ID, when buf is a packet with ID `id`.
HasId(buf, id) ==
    LET r == read_varint_from_cursor(Cursor(buf), FALSE) IN
    r.kind = "ok" /\ r.value = id
Remaining(buf) ==
    Len(buf) - read_varint_from_cursor(Cursor(buf), FALSE).pos
Undersized(buf) ==
    \/ HasId(buf, 18) /\ Remaining(buf) < 24
    \/ HasId(buf, 19) /\ Remaining(buf) < 32

\* C3: a position packet with fewer than 24 bytes after the packet ID (a
\* position+rotation packet with fewer than 32) is ignored: handling it
\* leaves the roster unchanged and the connection goes back to reading.
C3_UndersizedIgnored ==
    [][\A c \in Conns :
         (pc[c] = "pkt_handle" /\ Undersized(Get(buffer[c])) /\ pc'[c] # pc[c])
         => (pc'[c] = "play_read" /\ players' = players)]_vars

\* The thread of c is inside a socket read or write.
InSocketIo(c) ==
    pc[c] \in {"handshake", "login", "send_login", "join_write", "play_read"}

\* C4: no thread is inside a socket read or write while it holds the roster
\* lock or the world lock.
C4_NoLockAcrossIo ==
    \A c \in Conns : InSocketIo(c) => (players_lock # c /\ world_lock # c)

\* C5: after a decoded handshake the connection is in Status exactly when
\* next_state is 1 and in Login exactly when it is 2; with any other value it
\* never enters Login.
C5_NextStateSelectsBranch ==
    \A c \in Conns :
        /\ pc[c] = "status" => next_state[c] = Some(1)
        /\ pc[c] = "login" => next_state[c] = Some(2)

IsPrefix(s, t) == Len(s) <= Len(t) /\ \A i \in 1..Len(s) : s[i] = t[i]

LoginOrder ==
    <<"login_decoded", "inserted", "login_success_written", "join_written",
      "play_read">>

\* The packet ID of an outbound packet: the VarInt after the length prefix.
OutboundId(packet) ==
    LET l == read_varint(packet, 0, FALSE) IN
    read_varint(packet, l.pos, FALSE).value

InPlay(c) ==
    pc[c] \in {"play_read", "remove", "pkt_lock_players", "pkt_lock_world",
               "pkt_handle"}

\* C6: on every connection the steps happen in the order login decoded,
\* player inserted, login success (0x02) written, join (0x26) written, first
\* play read; the join packet is written only after the login-success write
\* succeeded, and the play loop is entered only after both writes succeeded.
C6_LoginOrder ==
    \A c \in Conns :
        /\ IsPrefix(events[c], LoginOrder)
        /\ Happened(c, "inserted") => (Exited(c) \/ IsSome(player[c]))
        /\ ~Exited(c) =>
             /\ Len(outbound[c]) =
                  (IF Happened(c, "login_success_written") THEN 1 ELSE 0)
                  + (IF Happened(c, "join_written") THEN 1 ELSE 0)
             /\ Len(outbound[c]) >= 1 => OutboundId(outbound[c][1]) = 2
             /\ Len(outbound[c]) >= 2 => OutboundId(outbound[c][2]) = 38
        /\ pc[c] = "join_write" => Happened(c, "login_success_written")
        /\ InPlay(c) => Happened(c, "join_written")

C6_Witness ==
    \E c \in Conns :
        /\ pc[c] = "pkt_handle"
        /\ events[c] = LoginOrder
        /\ Len(outbound[c]) = 2

\* C7: when the packet read in Handshake or in Login has an ID other than
\* 0x00, the connection has ended: it has inserted no player, has written no
\* packet and has not reached Play.
C7_WrongIdEndsConnection ==
    \A c \in Conns :
        (IsSome(packet_id[c]) /\ Get(packet_id[c]) # 0)
        => /\ pc[c] = "done"
           /\ events[c] = <<>>
           /\ player[c] = None
           /\ outbound[c] = <<>>

C7_Witness ==
    /\ \E c \in Conns :
         /\ pc[c] = "done"
         /\ diag[c] = <<"Login failed", "Invalid packet ID for login start">>
         /\ packet_id[c] = Some(1)
    /\ \E c \in Conns :
         /\ pc[c] = "done"
         /\ diag[c] = <<"Handshake failed", "Invalid packet ID for handshake">>
         /\ packet_id[c] = Some(1)

\* C8: a connection whose handshake has next_state = 1 takes the status
\* branch and ends; its steps create no player, write no packet and leave the
\* roster and the world as they were.
C8_StatusBranch ==
    [][\A c \in Conns :
         ((next_state[c] = Some(1) \/ next_state'[c] = Some(1)) /\ pc'[c] # pc[c])
         => /\ pc'[c] = (IF pc[c] = "handshake" THEN "status" ELSE "done")
            /\ players' = players
            /\ world' = world
            /\ next_uuid' = next_uuid
            /\ player'[c] = None
            /\ outbound'[c] = <<>>
            /\ events'[c] = <<>>]_vars

C8_Witness ==
    \E c \in Conns :
        /\ pc[c] = "done"
        /\ diag[c] = <<"status">>
        /\ players # <<>>

\* C9: when a connection in the play loop sees its socket closed (the length
\* read or the body read fails) and its handler exits, the roster it leaves
\* has no entry with that connection's username.
C9_DisconnectCleansUp ==
    [][\A c \in Conns :
         (pc[c] = "remove" /\ pc'[c] \in {"done", "panicked"})
         => ~HasUsername(players', Get(username[c]))]_vars

\* C10: inserting p into a roster R and then removing by p's username gives
\* back R: the same entries in the same order, none of them with p's identity.
C10_InsertRemoveRestores ==
    rs_step = "removed"
    => (players = rs_before /\ ~HasUuid(players, rs_player.uuid))

\* A movement packet that carries all of its coordinates, and those
\* coordinates: the three 8-byte groups after the packet ID.
WellFormedMove(buf) ==
    \/ HasId(buf, 18) /\ Remaining(buf) >= 24
    \/ HasId(buf, 19) /\ Remaining(buf) >= 32
MovePosition(buf) ==
    LET s == read_varint_from_cursor(Cursor(buf), FALSE).pos IN
    <<SubSeq(buf, s + 1, s + 8), SubSeq(buf, s + 9, s + 16),
      SubSeq(buf, s + 17, s + 24)>>

UuidsOf(roster) == { roster[i].uuid : i \in 1..Len(roster) }
PositionOf(roster, uuid) ==
    (CHOOSE q \in { roster[i] : i \in 1..Len(roster) } : q.uuid = uuid).position

\* Connection c's thread is handing a well-formed movement packet of the
\* player with identity uuid to handle_packet in this step.
Moves(c, uuid) ==
    /\ pc[c] = "pkt_handle"
    /\ pc'[c] # pc[c]
    /\ Get(player[c]).uuid = uuid
    /\ WellFormedMove(Get(buffer[c]))

\* C11: under every interleaving of the connections' well-formed position
\* updates, no update is lost and none lands on another player's entry: a
\* step changes the position of the entry with identity u exactly when it is
\* the step in which u's own connection handles its update, and then the
\* entry holds the coordinates that connection sent.
C11_UpdatesLandOnOwnEntry ==
    [][/\ \A c \in Conns :
            (pc[c] = "pkt_handle" /\ pc'[c] # pc[c] /\ WellFormedMove(Get(buffer[c])))
            => pc'[c] = "play_read"
       /\ \A u \in UuidsOf(players) \cap UuidsOf(players') :
            PositionOf(players', u) =
                 IF \E c \in Conns : Moves(c, u)
                 THEN MovePosition(Get(buffer[CHOOSE c \in Conns : Moves(c, u)]))
                 ELSE PositionOf(players, u)
       /\ (\E c \in Conns : pc[c] = "pkt_handle" /\ pc'[c] # pc[c])
            => UuidsOf(players') = UuidsOf(players)]_vars

C11_Witness ==
    /\ \A c \in Conns : pc[c] = "play_read"
    /\ Len(players) = NumConns
    /\ \A c \in Conns : Get(player[c]).uuid \in UuidsOf(players)
    /\ \E c, d \in Conns :
         /\ PositionOf(players, Get(player[c]).uuid) = PosA
         /\ PositionOf(players, Get(player[d]).uuid) = PosB

\* C12: in every reachable state the roster holds at most one entry per
\* player identity: no two positions of the roster carry the same uuid.
C12_OneEntryPerIdentity ==
    \A i, j \in 1..Len(players) :
        players[i].uuid = players[j].uuid => i = j

C12_Witness ==
    /\ Len(players) = NumConns
    /\ \A c \in Conns : Happened(c, "inserted")
    /\ \E i, j \in 1..Len(players) :
         i # j /\ players[i].username = players[j].username

\* What a client reads from an outbound packet: the frame, the packet ID and
\* the fields behind it.
IsLoginSuccess(packet, uuid, name) ==
    LET f == read_frame(packet, FALSE) IN
    /\ f.kind = "ok" /\ f.pos = Len(packet)
    /\ LET id == read_varint_from_cursor(Cursor(f.buffer), FALSE) IN
       /\ id.kind = "ok" /\ id.value = 2
       /\ LET s1 == read_string_from_cursor(At(Cursor(f.buffer), id.pos), FALSE) IN
          /\ s1.kind = "ok" /\ s1.value = uuid_to_string(uuid)
          /\ LET s2 == read_string_from_cursor(At(Cursor(f.buffer), s1.pos), FALSE) IN
             /\ s2.kind = "ok" /\ s2.value = name
             /\ s2.pos = Len(f.buffer)

\* Entity ID (4 bytes), hardcore, game mode and previous game mode (1 byte
\* each) precede the world count and the first world name.
IsJoinNaming(packet, world_name) ==
    LET f == read_frame(packet, FALSE) IN
    /\ f.kind = "ok" /\ f.pos = Len(packet)
    /\ LET id == read_varint_from_cursor(Cursor(f.buffer), FALSE) IN
       /\ id.kind = "ok" /\ id.value = 38
       /\ LET n == read_varint_from_cursor(At(Cursor(f.buffer), id.pos + 7), FALSE) IN
          /\ n.kind = "ok" /\ n.value >= 1
          /\ LET w == read_string_from_cursor(At(Cursor(f.buffer), n.pos), FALSE) IN
             w.kind = "ok" /\ w.value = world_name

\* Connection c is the only one that has logged in so far and has just had
\* both of its outbound packets written.
FirstLoginComplete(c) ==
    /\ pc[c] = "play_read"
    /\ events[c] = <<"login_decoded", "inserted", "login_success_written",
                     "join_written">>
    /\ \A d \in Conns \ {c} : ~Happened(d, "inserted")

\* C13: from an empty roster, once one client has completed the handshake and
\* Login Start with username u and both outbound packets are written, the
\* roster holds exactly one player, named u, at (0, 64, 0), and the client has
\* received login success with that player's identity and u, then a join
\* packet naming the world minecraft:overworld.  Login Start(u) decodes to u.
C13_FirstLogin ==
    /\ \A u \in Names, oc \in BOOLEAN :
         LET r == handle_login(LoginStart(0, u), oc) IN
         r.kind = "ok" /\ r.username = u
    /\ \A c \in Conns :
         FirstLoginComplete(c) =>
           /\ Len(players) = 1
           /\ players[1].username = Get(username[c])
           /\ players[1].position = <<F64_0, F64_64, F64_0>>
           /\ players[1].uuid = Get(player[c]).uuid
           /\ Len(outbound[c]) = 2
           /\ IsLoginSuccess(outbound[c][1], players[1].uuid, Get(username[c]))
           /\ IsJoinNaming(outbound[c][2], Overworld)

C13_Witness ==
    \E c \in Conns :
        /\ FirstLoginComplete(c)
        /\ username[c] = Some(NameSd)
        /\ Len(players) = 1 /\ players[1].username = NameSd
        /\ IsLoginSuccess(outbound[c][1], players[1].uuid, NameSd)

\* The buffer starts with a packet ID, and the ID is neither 0x12 nor 0x13.
UnknownId(buf) ==
    LET r == read_varint_from_cursor(Cursor(buf), FALSE) IN
    r.kind = "ok" /\ r.value \notin {18, 19}

C15_VarIntRoundTrip ==
    IsSome(vi_input) =>
        /\ Len(vi_buf) <= 5
        /\ vi_pc = "decoded" =>
             \A i \in 1..2 :
                /\ Get(vi_result)[i].kind = "ok"
                /\ Get(vi_result)[i].value = Get(vi_input)

\* No byte with the high bit clear among the first 5 bytes.
NoTerminator(bytes) ==
    \A i \in 1..Len(bytes) : i <= 5 => bytes[i] >= 128

\* C16: read_varint and read_varint_from_cursor return an error, not a value
\* and not a panic, for every byte sequence with no terminating byte among its
\* first 5 bytes, six continuation bytes included.
C16_NoTerminatorIsError ==
    (vi_pc = "decoded" /\ NoTerminator(vi_buf)) =>
        \A i \in 1..2 : Get(vi_result)[i].kind = "err"

\* The length prefix decodes, and the length the code reads with it (`length
\* as usize`, which for a negative i32 is above 2^63) exceeds the bytes that
\* follow the prefix in the stream.
DeclaredLengthExceeds(stream) ==
    LET l == read_varint(stream, 0, FALSE) IN
    /\ l.kind = "ok"
    /\ (l.value < 0 \/ l.value > Len(stream) - l.pos)

\* C17: in Handshake, Login and Play a packet is parsed only after as many
\* bytes as its length prefix declares have been read; when the declared
\* length exceeds the bytes the client delivers, no handler sees the packet
\* and the read ends with an error, never with a panic.
C17_ShortFrameIsError ==
    (vi_pc = "framed" /\ DeclaredLengthExceeds(vi_buf)) =>
        /\ Get(vi_result)[1].kind = "err"
        /\ Get(vi_result)[1].msg = "Failed to read handshake packet"
        /\ Get(vi_result)[2].kind = "err"
        /\ Get(vi_result)[2].msg = "Failed to read login packet"
        /\ Get(vi_result)[3].kind = "err_body"

PlayerFields == {"uuid", "username", "position", "health", "game_mode",
                 "is_operator"}

\* C18: a well-formed position or position+rotation packet changes only the
\* position field of the roster entry whose identity is that of the
\* connection's player: the other entries, that entry's other fields, the
\* size and the order of the roster and the world stay as they were, no
\* field for yaw or pitch appears, and when no entry has that identity
\* nothing changes.
C18_OnlyOwnPositionChanges ==
    [][\A c \in Conns :
         (pc[c] = "pkt_handle" /\ pc'[c] # pc[c] /\ WellFormedMove(Get(buffer[c])))
         => LET u == Get(player[c]).uuid
                hits == { i \in 1..Len(players) : players[i].uuid = u }
            IN /\ world' = world
               /\ Len(players') = Len(players)
               /\ \A i \in 1..Len(players) :
                    /\ DOMAIN players'[i] = PlayerFields
                    /\ players'[i] =
                         IF i \in hits
                         THEN [players[i] EXCEPT
                                 !.position = MovePosition(Get(buffer[c]))]
                         ELSE players[i]
               /\ hits = {} => players' = players]_vars

C18_Witness ==
    \E c \in Conns :
        /\ pc[c] = "pkt_handle"
        /\ HasId(Get(buffer[c]), 19) /\ WellFormedMove(Get(buffer[c]))
        /\ Len(players) = NumConns
        /\ \E i, j \in 1..Len(players) :
             /\ i # j
             /\ players[i].uuid = Get(player[c]).uuid
             /\ players[i].position # MovePosition(Get(buffer[c]))
             /\ players[j].username = players[i].username

\* Connection c's thread is in the play loop and has not started to leave it.
Playing(c) ==
    pc[c] \in {"play_read", "pkt_lock_players", "pkt_lock_world", "pkt_handle"}

\* C19: every connection that is in the play loop has a roster entry with
\* its own player identity; the disconnect of another connection never takes
\* it away, also when both logged in with the same username.
C19_PlayingHasOwnEntry ==
    \A c \in Conns :
        Playing(c) => Get(player[c]).uuid \in UuidsOf(players)

LockRequests == {"create", "print", "remove", "pkt_lock_players", "join_lock",
                 "pkt_lock_world"}

====
